---- MODULE Spec2Model ----
(***************************************************************************)
(* A model of the two scripts of dkopko/cb:                                *)
(*   scripts/perf_diff_to_html_table.py  (loader + HTML table renderer)    *)
(*   scripts/plot_measure.py             (the HIST parse loop)             *)
(*                                                                         *)
(* A Python str is modelled as a sequence of one-character strings, so     *)
(* that rstrip, split, x[0], float(), int() and sorted() act on the        *)
(* characters as the interpreter does.  A dict is a function; its key set  *)
(* is the function's DOMAIN.  A list is a sequence.                        *)
(***************************************************************************)
EXTENDS Integers, Sequences, FiniteSets, TLC

(***************************************************************************)
(* Characters and strings                                                  *)
(***************************************************************************)

\* The printable ASCII characters in code-point order: 32 (space) .. 95 (_),
\* and 97 (a) .. 126 (~).  Code point 96 is not part of the model's alphabet.
Ascii32 ==
  << " ", "!", "\"", "#", "$", "%", "&", "'", "(", ")", "*", "+", ",", "-", ".", "/",
     "0", "1", "2", "3", "4", "5", "6", "7", "8", "9", ":", ";", "<", "=", ">", "?",
     "@", "A", "B", "C", "D", "E", "F", "G", "H", "I", "J", "K", "L", "M", "N", "O",
     "P", "Q", "R", "S", "T", "U", "V", "W", "X", "Y", "Z", "[", "\\", "]", "^", "_" >>

Ascii97 ==
  << "a", "b", "c", "d", "e", "f", "g", "h", "i", "j", "k", "l", "m", "n", "o",
     "p", "q", "r", "s", "t", "u", "v", "w", "x", "y", "z", "{", "|", "}", "~" >>

\* ord(c): the code point of a character (the whitespace characters below 32).
OrdTable ==
  [c \in {Ascii32[i] : i \in 1..Len(Ascii32)} |->
     31 + (CHOOSE i \in 1..Len(Ascii32) : Ascii32[i] = c)]
  @@ [c \in {Ascii97[i] : i \in 1..Len(Ascii97)} |->
     96 + (CHOOSE i \in 1..Len(Ascii97) : Ascii97[i] = c)]
  @@ ("\t" :> 9) @@ ("\n" :> 10) @@ ("" :> 11) @@ ("\f" :> 12) @@ ("\r" :> 13)

Ord(c) == OrdTable[c]

\* str.lower() on one character.
Lower(c) == IF Ord(c) >= 65 /\ Ord(c) <= 90 THEN Ascii97[Ord(c) - 64] ELSE c

LowerStr(s) == [i \in 1..Len(s) |-> Lower(s[i])]

\* The characters str.rstrip() and str.strip() remove and float() and int()
\* skip: space, tab, newline, vertical tab, form feed, carriage return.
Whitespace == {" ", "\t", "\n", "", "\f", "\r"}

Digits == {"0", "1", "2", "3", "4", "5", "6", "7", "8", "9"}

\* a < b on Python 2 str: lexicographic on the code points.
RECURSIVE StrLess(_, _)
StrLess(a, b) ==
  IF a = <<>> THEN b # <<>>
  ELSE IF b = <<>> THEN FALSE
  ELSE IF Head(a) = Head(b) THEN StrLess(Tail(a), Tail(b))
  ELSE Ord(Head(a)) < Ord(Head(b))

RECURSIVE SortInsert(_, _)
SortInsert(e, s) ==
  IF s = <<>> THEN <<e>>
  ELSE IF StrLess(e, Head(s)) THEN <<e>> \o s
  ELSE <<Head(s)>> \o SortInsert(e, Tail(s))

\* sorted(list of str)
RECURSIVE sorted(_)
sorted(s) == IF s = <<>> THEN <<>> ELSE SortInsert(Head(s), sorted(Tail(s)))

\* x.rstrip()
RECURSIVE rstrip(_)
rstrip(x) ==
  IF x # <<>> /\ x[Len(x)] \in Whitespace
  THEN rstrip(SubSeq(x, 1, Len(x) - 1))
  ELSE x

\* x.split(sep) for a one-character separator: every separator splits, so
\* adjacent separators give empty fields, and the result has at least one field.
RECURSIVE split(_, _)
split(x, sep) ==
  IF \A i \in 1..Len(x) : x[i] # sep
  THEN <<x>>
  ELSE LET i == CHOOSE k \in 1..Len(x) : x[k] = sep /\ \A j \in 1..(k - 1) : x[j] # sep
       IN  <<SubSeq(x, 1, i - 1)>> \o split(SubSeq(x, i + 1, Len(x)), sep)

Range(s) == {s[i] : i \in 1..Len(s)}

(***************************************************************************)
(* Natural numbers of any size                                             *)
(*                                                                         *)
(* A double has a 53-bit mantissa and float(), / and * round to it, so the *)
(* arithmetic needs integers wider than a machine word.  A natural number  *)
(* is kept as the sequence of its limbs in base 2^15, the least            *)
(* significant one first, without leading zero limbs; 0 is << >>.          *)
(***************************************************************************)

LimbBits == 15
LimbBase == 32768

Max(a, b) == IF a >= b THEN a ELSE b
Min(a, b) == IF a <= b THEN a ELSE b

RECURSIVE Pow2(_)
Pow2(n) == IF n <= 0 THEN 1 ELSE 2 * Pow2(n - 1)

\* Limb i of a; the limbs beyond the leading one are zero.
Limb(a, i) == IF i >= 1 /\ i <= Len(a) THEN a[i] ELSE 0

\* a without its leading zero limbs.
BigTrim(a) ==
  IF \A i \in 1..Len(a) : a[i] = 0 THEN <<>>
  ELSE SubSeq(a, 1, CHOOSE i \in 1..Len(a) :
                      a[i] # 0 /\ \A j \in (i + 1)..Len(a) : a[j] = 0)

\* The number n >= 0 of the machine.
RECURSIVE BigOf(_)
BigOf(n) == IF n = 0 THEN <<>> ELSE <<n % LimbBase>> \o BigOf(n \div LimbBase)

\* The number a of at most two limbs as a number of the machine.
RECURSIVE BigToInt(_)
BigToInt(a) == IF a = <<>> THEN 0 ELSE a[1] + LimbBase * BigToInt(Tail(a))

\* Limb i of a + b takes a carry when a lower limb overflows and every limb
\* between the two passes the carry on.
CarryInto(a, b, i) ==
  \E j \in 1..(i - 1) :
    /\ Limb(a, j) + Limb(b, j) >= LimbBase
    /\ \A l \in (j + 1)..(i - 1) : Limb(a, l) + Limb(b, l) = LimbBase - 1

\* a + b
BigAdd(a, b) ==
  BigTrim([i \in 1..(Max(Len(a), Len(b)) + 1) |->
             (Limb(a, i) + Limb(b, i) + (IF CarryInto(a, b, i) THEN 1 ELSE 0)) % LimbBase])

\* Limb i of a - b gives a borrow when a lower limb of a is the smaller one
\* and the limbs between the two are equal.
BorrowFrom(a, b, i) ==
  \E j \in 1..(i - 1) :
    /\ Limb(a, j) < Limb(b, j)
    /\ \A l \in (j + 1)..(i - 1) : Limb(a, l) = Limb(b, l)

\* a - b, for a >= b
BigSub(a, b) ==
  BigTrim([i \in 1..Len(a) |->
             (Limb(a, i) - Limb(b, i) - (IF BorrowFrom(a, b, i) THEN 1 ELSE 0) + LimbBase)
               % LimbBase])

\* 1, 0 or -1 as a > b, a = b or a < b: the length decides, then the most
\* significant limb that differs.
BigCmp(a, b) ==
  IF Len(a) > Len(b) THEN 1
  ELSE IF Len(a) < Len(b) THEN -1
  ELSE IF \A i \in 1..Len(a) : a[i] = b[i] THEN 0
  ELSE IF \E i \in 1..Len(a) : a[i] > b[i] /\ \A j \in (i + 1)..Len(a) : a[j] = b[j] THEN 1
  ELSE -1

\* a * k for 0 <= k < 2^15: the low halves of the limb products, plus the high
\* halves one limb up.
BigMulSmall(a, k) ==
  IF k = 0 \/ a = <<>> THEN <<>>
  ELSE BigAdd([i \in 1..Len(a) |-> (a[i] * k) % LimbBase],
              <<0>> \o [i \in 1..Len(a) |-> (a[i] * k) \div LimbBase])

\* a * 2^n
BigShl(a, n) ==
  IF a = <<>> THEN <<>>
  ELSE [j \in 1..(n \div LimbBits) |-> 0] \o BigMulSmall(a, Pow2(n % LimbBits))

\* floor(a / 2^n): whole limbs are dropped, then each limb takes the low bits
\* of the next one.
BigShr(a, n) ==
  BigTrim([i \in 1..(Len(a) - (n \div LimbBits)) |->
             (Limb(a, i + (n \div LimbBits)) \div Pow2(n % LimbBits))
             + (Limb(a, i + (n \div LimbBits) + 1) % Pow2(n % LimbBits))
               * Pow2(LimbBits - (n % LimbBits))])

RECURSIVE BitLen(_)
BitLen(n) == IF n = 0 THEN 0 ELSE 1 + BitLen(n \div 2)

\* The number of bits of a: 2^(BigBitLen(a) - 1) <= a < 2^BigBitLen(a).
BigBitLen(a) ==
  IF a = <<>> THEN 0 ELSE LimbBits * (Len(a) - 1) + BitLen(a[Len(a)])

\* r * 2^15 + x
PushLimb(r, x) == BigTrim(<<x>> \o r)

\* An estimate of floor(R / b) from the leading limbs, for R < b * 2^15 and b
\* with its leading limb at least 2^14: it is the quotient or up to two more.
DigitGuess(R, b) ==
  Min(LimbBase - 1,
      ((IF Len(R) > Len(b) THEN R[Len(b) + 1] ELSE 0) * LimbBase
         + (IF Len(R) >= Len(b) THEN R[Len(b)] ELSE 0)) \div b[Len(b)])

DigitFix(R, b, q) == IF BigCmp(BigMulSmall(b, q), R) > 0 THEN q - 1 ELSE q

\* floor(R / b), a single limb.
Digit(R, b) == DigitFix(R, b, DigitFix(R, b, DigitGuess(R, b)))

\* R = q * b + r for the limb q = floor(R / b).
DivLimb(R, b, q) ==
  [q |-> <<q>>, r |-> IF q = 0 THEN R ELSE BigSub(R, BigMulSmall(b, q))]

\* The quotient limbs of the upper and of the lower part of a dividend, the
\* most significant limb first as the division finds them.
DivJoin(low, high) == [q |-> high.q \o low.q, r |-> low.r]

\* Long division in base 2^15 of the limbs lo .. hi of a by b, the remainder
\* r < b carried in from the limbs above.  The upper half of the limbs is
\* divided first and its remainder is carried into the lower half.
RECURSIVE BigDivSeg(_, _, _, _, _)
DivLow(a, b, lo, mid, high) == DivJoin(BigDivSeg(a, b, lo, mid, high.r), high)
BigDivSeg(a, b, lo, hi, r) ==
  IF lo = hi
  THEN DivLimb(PushLimb(r, a[lo]), b, Digit(PushLimb(r, a[lo]), b))
  ELSE DivLow(a, b, lo, (lo + hi) \div 2, BigDivSeg(a, b, (lo + hi) \div 2 + 1, hi, r))

\* Quotient and remainder of a by b, the leading limb of b at least 2^14; the
\* quotient is turned to have its least significant limb first.
BigDivNorm(a, b) ==
  IF Len(a) < Len(b) THEN [q |-> <<>>, r |-> a]
  ELSE LET qr == BigDivSeg(a, b, 1, Len(a) - Len(b) + 1,
                           SubSeq(a, Len(a) - Len(b) + 2, Len(a)))
       IN [q |-> BigTrim([i \in 1..Len(qr.q) |-> qr.q[Len(qr.q) + 1 - i]]), r |-> qr.r]

\* Both operands scaled by 2^k, and the remainder scaled back.
BigDivShift(a, b, k) ==
  [q |-> BigDivNorm(BigMulSmall(a, Pow2(k)), BigMulSmall(b, Pow2(k))).q,
   r |-> BigShr(BigDivNorm(BigMulSmall(a, Pow2(k)), BigMulSmall(b, Pow2(k))).r, k)]

\* Quotient q and remainder r of a by b > 0.
BigDivMod(a, b) ==
  IF b = <<1>> THEN [q |-> a, r |-> <<>>]
  ELSE BigDivShift(a, b, LimbBits - BitLen(b[Len(b)]))

\* The quotient of qr rounded to nearest, a tie to the even one; d the divisor.
RoundHalfEven(qr, d) ==
  IF BigCmp(BigMulSmall(qr.r, 2), d) > 0
     \/ (BigCmp(BigMulSmall(qr.r, 2), d) = 0 /\ Limb(qr.q, 1) % 2 = 1)
  THEN BigAdd(qr.q, <<1>>)
  ELSE qr.q

\* n / d rounded to the nearest integer, a tie to the even one.
BigRoundDiv(n, d) == RoundHalfEven(BigDivMod(n, d), d)

\* a * 10^n: up to four decimal places are one multiplication, more places
\* are taken in two halves.
RECURSIVE BigMulPow10(_, _)
BigMulPow10(a, n) ==
  IF n <= 0 \/ a = <<>> THEN a
  ELSE IF n = 1 THEN BigMulSmall(a, 10)
  ELSE IF n = 2 THEN BigMulSmall(a, 100)
  ELSE IF n = 3 THEN BigMulSmall(a, 1000)
  ELSE IF n = 4 THEN BigMulSmall(a, 10000)
  ELSE BigMulPow10(BigMulPow10(a, n \div 2), n - (n \div 2))

AllDigits(ds) == \A i \in 1..Len(ds) : ds[i] \in Digits

\* The number a string of decimal digits denotes: the upper half of the digits
\* counts as many powers of ten as the lower half has digits.
RECURSIVE DigitsToBig(_)
DigitsToBig(ds) ==
  IF ds = <<>> THEN <<>>
  ELSE IF Len(ds) = 1 THEN BigOf(Ord(ds[1]) - 48)
  ELSE BigAdd(BigMulPow10(DigitsToBig(SubSeq(ds, 1, Len(ds) - (Len(ds) \div 2))),
                          Len(ds) \div 2),
              DigitsToBig(SubSeq(ds, Len(ds) - (Len(ds) \div 2) + 1, Len(ds))))

RECURSIVE StripZeros(_)
StripZeros(ds) == IF ds # <<>> /\ ds[1] = "0" THEN StripZeros(Tail(ds)) ELSE ds

\* The four decimal digits of n < 10000.
FourDigits(n) ==
  << Ascii32[17 + (n \div 1000)], Ascii32[17 + ((n \div 100) % 10)],
     Ascii32[17 + ((n \div 10) % 10)], Ascii32[17 + (n % 10)] >>

\* The 4 * n decimal digits of a < 10^(4n), with zeros in front: the upper and
\* the lower digits are the quotient and the remainder by a power of ten.
RECURSIVE PaddedDigits(_, _)
DigitsSplit(qr, n) ==
  PaddedDigits(qr.q, n - (n \div 2)) \o PaddedDigits(qr.r, n \div 2)
PaddedDigits(a, n) ==
  IF n <= 1 THEN FourDigits(BigToInt(a))
  ELSE DigitsSplit(BigDivMod(a, BigMulPow10(<<1>>, 4 * (n \div 2))), n)

\* The decimal digits of a > 0, the most significant first; << >> for 0.  A
\* number of b bits has at most b * log10(2) + 1 decimal digits.
BigToDigits(a) == StripZeros(PaddedDigits(a, (BigBitLen(a) * 30103) \div 400000 + 1))

(***************************************************************************)
(* float(): text to IEEE 754 double, its arithmetic, and the '%0.1e' and   *)
(* '%0.1f' conversions                                                     *)
(*                                                                         *)
(* A finite double is sign, mantissa m and exponent e with value m * 2^e:  *)
(* m has 53 bits for a normal number and fewer bits with e = -1074 for a   *)
(* subnormal one; zero is m = << >>, e = 0.  float(), / and * round the    *)
(* exact result to the nearest double, a tie to the even mantissa, as the  *)
(* hardware does; the conversions to text round the exact value of the     *)
(* double, as the interpreter's formatting does.                           *)
(***************************************************************************)

MantBits == 53        \* bits of the mantissa of a double
MinExp   == -1074     \* 2^MinExp is the least positive double
TopExp   == 1024      \* a magnitude of 2^TopExp or more is an infinity

Num(neg, m, e) == [kind |-> "num", neg |-> neg, m |-> m, e |-> e]
Zero(neg) == Num(neg, <<>>, 0)
Inf(neg) == [kind |-> "inf", neg |-> neg, m |-> <<>>, e |-> 0]
NaN == [kind |-> "nan", neg |-> FALSE, m |-> <<>>, e |-> 0]
\* What float() and int() raise on text that is no number.
ValueError == [kind |-> "ValueError", neg |-> FALSE, m |-> <<>>, e |-> 0]
\* What a float division by zero raises.
ZeroDivisionError == [kind |-> "ZeroDivisionError", neg |-> FALSE, m |-> <<>>, e |-> 0]

IsNumber(v) == v.kind \in {"num", "inf", "nan"}

\* m * 2^e with m < 2^53: zero, an infinity when too large, else the double.
Finite(neg, m, e) ==
  IF m = <<>> THEN Zero(neg)
  ELSE IF e + BigBitLen(m) > TopExp THEN Inf(neg)
  ELSE Num(neg, m, e)

\* A mantissa that the rounding carried to 2^53 moves to the next exponent.
Carried(neg, m, e) ==
  IF BigBitLen(m) > MantBits THEN Finite(neg, BigShr(m, 1), e + 1) ELSE Finite(neg, m, e)

\* n / d rounded to a multiple of 2^e.
RoundAtExp(neg, n, d, e) ==
  Carried(neg, BigRoundDiv(BigShl(n, Max(0 - e, 0)), BigShl(d, Max(e, 0))), e)

\* floor(log2(n / d)), for n and d of bn and bd bits.
Log2Floor(n, d, bn, bd) ==
  IF BigCmp(BigShl(n, Max(bd - bn, 0)), BigShl(d, Max(bn - bd, 0))) >= 0
  THEN bn - bd
  ELSE bn - bd - 1

\* The double nearest to n / d (d > 0), with the sign given.
ToDouble(neg, n, d) ==
  IF n = <<>> THEN Zero(neg)
  ELSE RoundAtExp(neg, n, d,
                  Max(Log2Floor(n, d, BigBitLen(n), BigBitLen(d)) - (MantBits - 1), MinExp))

RECURSIVE lstrip(_)
lstrip(x) == IF x # <<>> /\ x[1] \in Whitespace THEN lstrip(Tail(x)) ELSE x

strip(x) == lstrip(rstrip(x))

\* The position of the first exponent marker of body, 0 when there is none.
EPos(body) ==
  IF \E k \in 1..Len(body) : body[k] \in {"e", "E"}
  THEN CHOOSE k \in 1..Len(body) :
         body[k] \in {"e", "E"} /\ \A j \in 1..(k - 1) : body[j] \notin {"e", "E"}
  ELSE 0

\* digits [. [digits]] or . digits, given as the fields between the dots.
MantissaOk(parts) ==
  /\ Len(parts) <= 2
  /\ \A k \in 1..Len(parts) : AllDigits(parts[k])
  /\ \E k \in 1..Len(parts) : parts[k] # <<>>

\* [sign] digits
ExponentOk(expo) ==
  /\ expo # <<>>
  /\ IF expo[1] \in {"+", "-"}
     THEN Tail(expo) # <<>> /\ AllDigits(Tail(expo))
     ELSE AllDigits(expo)

\* The exponent as written, an integer of any size: its sign and magnitude.
ExponentValue(expo) ==
  IF expo[1] \in {"+", "-"}
  THEN [neg |-> expo[1] = "-", mag |-> DigitsToBig(Tail(expo))]
  ELSE [neg |-> FALSE, mag |-> DigitsToBig(expo)]

\* The exponent e plus the integer k.
ExpPlus(e, k) ==
  IF e.neg = (k < 0)
  THEN [neg |-> e.neg, mag |-> BigAdd(e.mag, BigOf(IF k < 0 THEN 0 - k ELSE k))]
  ELSE IF BigCmp(e.mag, BigOf(IF k < 0 THEN 0 - k ELSE k)) >= 0
  THEN [neg |-> e.neg, mag |-> BigSub(e.mag, BigOf(IF k < 0 THEN 0 - k ELSE k))]
  ELSE [neg |-> k < 0, mag |-> BigSub(BigOf(IF k < 0 THEN 0 - k ELSE k), e.mag)]

\* The double nearest to ds * 10^x, ds digits without leading zeros, not empty.
ScaledDecimal(neg, ds, x) ==
  ToDouble(neg, BigMulPow10(DigitsToBig(ds), x), BigMulPow10(<<1>>, 0 - x))

\* The double nearest to the digits ipart.fpart times 10^e.  With ds the digits
\* from the first one that is not 0 on, the value is at least 10^(top - 1) and
\* less than 10^top: 10^309 or more is beyond the largest double, less than
\* 10^-324 is less than half the least positive double.
DecimalValue(neg, ipart, fpart, e) ==
  LET ds  == StripZeros(ipart \o fpart)
      top == ExpPlus(e, Len(ds) - Len(fpart))
  IN IF ds = <<>> THEN Zero(neg)
     ELSE IF ~top.neg /\ BigCmp(top.mag, BigOf(310)) >= 0 THEN Inf(neg)
     ELSE IF top.neg /\ BigCmp(top.mag, BigOf(324)) >= 0 THEN Zero(neg)
     ELSE ScaledDecimal(neg, ds, (IF top.neg THEN 0 - BigToInt(top.mag)
                                 ELSE BigToInt(top.mag)) - Len(ds))

ParseMantExp(neg, parts, hasExp, expo) ==
  IF ~MantissaOk(parts) \/ (hasExp /\ ~ExponentOk(expo)) THEN ValueError
  ELSE DecimalValue(neg, parts[1],
                    IF Len(parts) > 1 THEN parts[2] ELSE <<>>,
                    IF hasExp THEN ExponentValue(expo) ELSE [neg |-> FALSE, mag |-> <<>>])

ParseDecimal(neg, body, epos) ==
  IF epos = 0
  THEN ParseMantExp(neg, split(body, "."), FALSE, <<>>)
  ELSE ParseMantExp(neg, split(SubSeq(body, 1, epos - 1), "."), TRUE,
                    SubSeq(body, epos + 1, Len(body)))

ParseUnsigned(neg, body) ==
  IF LowerStr(body) \in { <<"i","n","f">>, <<"i","n","f","i","n","i","t","y">> } THEN Inf(neg)
  ELSE IF LowerStr(body) = <<"n","a","n">> THEN NaN
  ELSE ParseDecimal(neg, body, EPos(body))

ParseStripped(s) ==
  IF s # <<>> /\ s[1] \in {"+", "-"}
  THEN ParseUnsigned(s[1] = "-", Tail(s))
  ELSE ParseUnsigned(FALSE, s)

\* float(text): [sign] (digits [. [digits]] | . digits) [(e|E) [sign] digits],
\* or [sign] inf | infinity | nan in any case, surrounding whitespace ignored.
ParseFloat(text) == ParseStripped(strip(text))

\* 1, 0 or -1 as |a| > |b|, |a| = |b| or |a| < |b|, for finite a and b: the
\* higher leading bit decides, then the mantissa.
MagCmp(a, b) ==
  IF a.m = <<>> \/ b.m = <<>>
  THEN (IF a.m = b.m THEN 0 ELSE IF a.m = <<>> THEN -1 ELSE 1)
  ELSE IF a.e + BigBitLen(a.m) > b.e + BigBitLen(b.m) THEN 1
  ELSE IF a.e + BigBitLen(a.m) < b.e + BigBitLen(b.m) THEN -1
  ELSE BigCmp(a.m, b.m)

\* a > b on finite floats; -0.0 and 0.0 are equal.
FiniteGt(a, b) ==
  IF a.neg = b.neg
  THEN (IF a.neg THEN MagCmp(a, b) < 0 ELSE MagCmp(a, b) > 0)
  ELSE b.neg /\ ~(a.m = <<>> /\ b.m = <<>>)

\* a > b on floats: False whenever a NaN is involved.
FloatGt(a, b) ==
  IF a.kind = "nan" \/ b.kind = "nan" THEN FALSE
  ELSE IF a.kind = "inf" THEN ~a.neg /\ ~(b.kind = "inf" /\ ~b.neg)
  ELSE IF b.kind = "inf" THEN b.neg
  ELSE FiniteGt(a, b)

\* v != 0 on a float: True for a NaN and for an infinity.
FloatNonZero(v) == ~(v.kind = "num" /\ v.m = <<>>)

\* a / b on floats.
FloatDiv(a, b) ==
  IF ~FloatNonZero(b) THEN ZeroDivisionError
  ELSE IF a.kind = "nan" \/ b.kind = "nan" THEN NaN
  ELSE IF a.kind = "inf" /\ b.kind = "inf" THEN NaN
  ELSE IF a.kind = "inf" THEN Inf(a.neg # b.neg)
  ELSE IF b.kind = "inf" THEN Zero(a.neg # b.neg)
  ELSE ToDouble(a.neg # b.neg, BigShl(a.m, Max(a.e - b.e, 0)), BigShl(b.m, Max(b.e - a.e, 0)))

\* a * 100.0
FloatMul100(a) ==
  IF a.kind = "num"
  THEN ToDouble(a.neg, BigShl(BigMulSmall(a.m, 100), Max(a.e, 0)), BigShl(<<1>>, Max(0 - a.e, 0)))
  ELSE a

\* '%0.1f' % v: the sign and the digits of the value in tenths, so that the
\* text printed is the digits with a point before the last one ("5" is 0.5).
FmtF1(v) ==
  IF v.kind = "num"
  THEN [kind |-> "num", neg |-> v.neg,
        tenths |-> LET t == BigRoundDiv(BigShl(BigMulSmall(v.m, 10), Max(v.e, 0)),
                                        BigShl(<<1>>, Max(0 - v.e, 0)))
                   IN IF t = <<>> THEN <<"0">> ELSE BigToDigits(t)]
  ELSE [kind |-> v.kind, neg |-> (v.kind = "inf" /\ v.neg), tenths |-> <<"0">>]

\* The decimal exponent x of n/d > 0: 10^x <= n/d < 10^(x+1).
RECURSIVE Exp10(_, _)
Exp10(n, d) ==
  IF BigCmp(n, BigMulSmall(d, 10)) >= 0 THEN 1 + Exp10(n, BigMulSmall(d, 10))
  ELSE IF BigCmp(n, d) < 0 THEN Exp10(BigMulSmall(n, 10), d) - 1
  ELSE 0

\* The decimal exponent guessed from the binary one: log10(2) is 0.30103.
Exp10Guess(n, d) == ((BigBitLen(n) - BigBitLen(d) - 1) * 30103) \div 100000

\* The decimal exponent of n/d, counted from the guess x.
Exp10Near(n, d, x) ==
  x + Exp10(BigMulPow10(n, Max(0 - x, 0)), BigMulPow10(d, Max(x, 0)))

\* A mantissa that rounds up to 10.0 is printed as 1.0 with the next exponent.
SciNorm(neg, m, x) ==
  IF m = 100
  THEN [kind |-> "num", neg |-> neg, mant |-> 10, exp |-> x + 1]
  ELSE [kind |-> "num", neg |-> neg, mant |-> m, exp |-> x]

\* n/d, of decimal exponent x, to two digits.
SciOf(neg, n, d, x) ==
  SciNorm(neg, BigToInt(BigRoundDiv(BigMulPow10(n, 1 - x), BigMulPow10(d, x - 1))), x)

\* '%0.1e' % v: the sign, the two-digit mantissa in tenths and the exponent.
FmtE1(v) ==
  IF v.kind # "num"
  THEN [kind |-> v.kind, neg |-> (v.kind = "inf" /\ v.neg), mant |-> 0, exp |-> 0]
  ELSE IF v.m = <<>>
  THEN [kind |-> "num", neg |-> v.neg, mant |-> 0, exp |-> 0]
  ELSE LET n == BigShl(v.m, Max(v.e, 0))
           d == BigShl(<<1>>, Max(0 - v.e, 0))
       IN SciOf(v.neg, n, d, Exp10Near(n, d, Exp10Guess(n, d)))

(***************************************************************************)
(* perf_diff_to_html_table.py: state                                       *)
(***************************************************************************)

VARIABLES
  sys_argv,            \* sys.argv: the program name, then the file arguments
  fs,                  \* the readable files: path -> list of lines (without "\n")
  pc,                  \* where the script is: "main", "load", "rows", "exit"
  i,                   \* the loop index of the load loop (line 106)
  loadindex,
  loaded_columnnames,
  loaded_filenames,
  known_eventnames,
  eventnames,
  eventdata,
  row,                 \* how many entries of sorted(eventnames) print_html has taken
  out,                 \* standard output: one entry per print statement executed
  err,                 \* the uncaught exception, "" when none
  exit_status,         \* the process exit status, -1 while running
  \* plot_measure.py
  plot_files,          \* the paths open(filename, 'r') can open
  plot_pc,             \* "start" at line 17, "parse" in the loop of line 24,
                       \* "layout" after it, "exit"
  plot_lines,          \* the lines of the input file the loop has taken so far
  known_impls,
  known_ops,
  impl_measures,
  plot_err             \* the uncaught exception, "" when none

perf_vars == << sys_argv, fs, pc, i, loadindex, loaded_columnnames, loaded_filenames,
                known_eventnames, eventnames, eventdata, row, out, err, exit_status >>

plot_vars == << plot_files, plot_pc, plot_lines, known_impls, known_ops, impl_measures, plot_err >>

vars == << perf_vars, plot_vars >>

globals == << loadindex, loaded_columnnames, loaded_filenames,
              known_eventnames, eventnames, eventdata >>

\* The reserved keys and the sentinel of a missing field.
NAME_KEY  == << "_", "_", "N", "A", "M", "E", "_", "_" >>
PATCH_KEY == << "_", "_", "P", "A", "T", "C", "H", "_", "_" >>
NA        == << "n", "/", "a" >>

\* {} : a dict with no key.
EmptyDict == << >>

\* filenames = sys.argv[1::]
filenames == Tail(sys_argv)

(***************************************************************************)
(* read_filename                                                           *)
(***************************************************************************)

\* Mutation of RecordEvent: the name is appended on every occurrence.
RecordEventAlways(filename, eventname, count, st) ==
  [ known |-> (eventname :> 1) @@ st.known,
    names |-> Append(st.names, eventname),
    data  |-> IF filename \in DOMAIN st.data
              THEN [st.data EXCEPT ![filename] = (eventname :> count) @@ @]
              ELSE (filename :> (eventname :> count)) @@ st.data ]

\* Lines 51-56: the pair (eventname, count) is recorded; st holds
\* known_eventnames, eventnames and eventdata.
RecordEvent(filename, eventname, count, st) ==
  [ known |-> IF eventname \in DOMAIN st.known
              THEN st.known
              ELSE (eventname :> 1) @@ st.known,
    names |-> IF eventname \in DOMAIN st.known
              THEN st.names
              ELSE Append(st.names, eventname),
    data  |-> IF filename \in DOMAIN st.data
              THEN [st.data EXCEPT ![filename] = (eventname :> count) @@ @]
              ELSE (filename :> (eventname :> count)) @@ st.data ]

\* Lines 47-49: the fields y of a line.
LoadFields(filename, y, st) ==
  RecordEvent(filename,
              IF Len(y) > 0 THEN y[1] ELSE NA,
              IF Len(y) > 1 THEN y[2] ELSE NA,
              st)

\* Lines 42-47: the stripped line x is skipped or split.
LoadStripped(filename, x, st) ==
  IF x = <<>> THEN st
  ELSE IF x[1] = "#" THEN st
  ELSE LoadFields(filename, split(x, " "), st)

\* One pass of the loop body (lines 40-56).
LoadLine(filename, x, st) == LoadStripped(filename, rstrip(x), st)

\* The for-loop over the lines of the file (line 39).
RECURSIVE LoadLines(_, _, _)
LoadLines(filename, lines, st) ==
  IF lines = <<>> THEN st
  ELSE LoadLines(filename, Tail(lines), LoadLine(filename, Head(lines), st))

\* Mutation of AfterLoop: a missing '__NAME__' gives a placeholder label
\* in place of the lookup error.
AfterLoopDefaultName(filename, g, st) ==
  [g EXCEPT !.known = st.known, !.names = st.names,
            !.data = IF filename \in DOMAIN st.data
                     THEN st.data
                     ELSE (filename :> EmptyDict) @@ st.data,
            !.colnames  = Append(g.colnames,
                                 IF filename \in DOMAIN st.data
                                    /\ NAME_KEY \in DOMAIN st.data[filename]
                                 THEN st.data[filename][NAME_KEY]
                                 ELSE NA),
            !.files     = Append(g.files, filename),
            !.loadindex = g.loadindex + 1]

\* Mutation of AfterLoop: the column is put in front of the lists.
AfterLoopPrepend(filename, g, st) ==
  IF filename \notin DOMAIN st.data \/ NAME_KEY \notin DOMAIN st.data[filename]
  THEN [g EXCEPT !.known = st.known, !.names = st.names, !.data = st.data,
                 !.err = "KeyError"]
  ELSE [g EXCEPT !.known = st.known, !.names = st.names, !.data = st.data,
                 !.colnames  = <<st.data[filename][NAME_KEY]>> \o g.colnames,
                 !.files     = <<filename>> \o g.files,
                 !.loadindex = g.loadindex + 1]

\* Lines 57-59, after the loop left st.
AfterLoop(filename, g, st) ==
  IF filename \notin DOMAIN st.data \/ NAME_KEY \notin DOMAIN st.data[filename]
  THEN [g EXCEPT !.known = st.known, !.names = st.names, !.data = st.data,
                 !.err = "KeyError"]
  ELSE [g EXCEPT !.known = st.known, !.names = st.names, !.data = st.data,
                 !.colnames  = Append(g.colnames, st.data[filename][NAME_KEY]),
                 !.files     = Append(g.files, filename),
                 !.loadindex = g.loadindex + 1]

\* read_filename(filename) from the globals g: the globals it leaves and the
\* exception it raises ("" when it returns).
read_filename(filename, g) ==
  IF filename \notin DOMAIN fs
  THEN [g EXCEPT !.err = "IOError"]
  ELSE AfterLoop(filename, g,
                 LoadLines(filename, fs[filename],
                           [known |-> g.known, names |-> g.names, data |-> g.data]))

Globals ==
  [ loadindex |-> loadindex, colnames |-> loaded_columnnames, files |-> loaded_filenames,
    known |-> known_eventnames, names |-> eventnames, data |-> eventdata, err |-> "" ]

(***************************************************************************)
(* print_html: the lines it prints                                         *)
(***************************************************************************)

NoHref == << >>

Line(tag, cells) == [tag |-> tag, cells |-> cells]
Th(text, href) == [el |-> "th", text |-> text, href |-> href]
TdText(text) == [el |-> "td", cls |-> "", text |-> text]
TdSci(cls, v) == [el |-> "td", cls |-> cls, sci |-> FmtE1(v)]
TdPct(cls, v) == [el |-> "td", cls |-> cls, pct |-> FmtF1(v)]

\* bool(s) of a str: a non-empty string is true.
Truthy(s) == s # <<>>

\* A printed line followed by what the rest of a loop prints.
Then(line, rest) == [lines |-> <<line>> \o rest.lines, err |-> rest.err]
Printed(lines) == [lines |-> lines, err |-> ""]
Raised(lines, e) == [lines |-> lines, err |-> e]

\* Lines 72-75: the header cells of column c, whose '__PATCH__' value is patch.
DeltaHeader(c, patch) ==
  IF Truthy(patch)
  THEN Line("th", << Th(c, <<patch>>), Th(<<"%">>, NoHref) >>)
  ELSE Line("th", << Th(c, NoHref), Th(<<"%">>, NoHref) >>)

\* The loop of lines 70-76 from loop index k on: the header lines it prints
\* and the exception that ends it.
RECURSIVE DeltaHeaders(_)
DeltaHeaders(k) ==
  IF k >= Len(loaded_columnnames) THEN Printed(<<>>)
  ELSE IF PATCH_KEY \notin DOMAIN eventdata[loaded_filenames[k + 1]]
  THEN Raised(<<>>, "KeyError")
  ELSE Then(DeltaHeader(loaded_columnnames[k + 1],
                        eventdata[loaded_filenames[k + 1]][PATCH_KEY]),
            DeltaHeaders(k + 1))

\* Line 77 follows the loop when nothing was raised.
CloseRow(r) ==
  IF r.err # "" THEN r ELSE Printed(r.lines \o << Line("/tr", <<>>) >>)

\* Lines 63-66.
TableStart == << Line("table", <<>>), Line("tr", <<>>), Line("th", << Th(<<>>, NoHref) >>) >>

After(lines, r) == [lines |-> lines \o r.lines, err |-> r.err]

\* Mutation of HeaderLines: what was printed is dropped when the row fails.
HeaderLinesAllOrNothing ==
  IF loaded_columnnames = <<>>
  THEN Raised(<<>>, "IndexError")
  ELSE IF DeltaHeaders(1).err # "" THEN Raised(<<>>, DeltaHeaders(1).err)
  ELSE After(TableStart \o << Line("th", << Th(loaded_columnnames[1], NoHref) >>) >>,
             CloseRow(DeltaHeaders(1)))

\* Lines 63-77: the table's opening and its header row.
HeaderLines ==
  IF loaded_columnnames = <<>>
  THEN Raised(TableStart \o << Line("<th>", <<>>) >>, "IndexError")  \* '<th>' is written
  ELSE After(TableStart \o << Line("th", << Th(loaded_columnnames[1], NoHref) >>) >>,
             CloseRow(DeltaHeaders(1)))

\* Mutation of Pct: the zero guard of line 90 is dropped.
PctUnguarded(new_val, origin_val) == FloatMul100(FloatDiv(new_val, origin_val))

\* pct of line 90.
Pct(new_val, origin_val) ==
  IF FloatNonZero(origin_val)
  THEN FloatMul100(FloatDiv(new_val, origin_val))
  ELSE Zero(FALSE)

\* Mutation of IsIncrease: >= in place of >.
IsIncreaseOrEqual(new_val, origin_val) == ~FloatGt(origin_val, new_val)

\* The test of line 91.
IsIncrease(new_val, origin_val) == FloatGt(new_val, origin_val)

\* Lines 91-94: the two cells of a comparison column.
DeltaLine(new_val, origin_val, pct) ==
  IF IsIncrease(new_val, origin_val)
  THEN Line("td", << TdSci("perfstatincr", new_val), TdPct("perfstatincr", pct) >>)
  ELSE Line("td", << TdSci("perfstatdecr", new_val), TdPct("perfstatdecr", pct) >>)

RECURSIVE DeltaCells(_, _, _)

\* Lines 90-94 for the column at index k, once pct is computed.
DeltaPrinted(e, origin_val, k, new_val, pct) ==
  IF ~IsNumber(pct) THEN Raised(<<>>, pct.kind)
  ELSE Then(DeltaLine(new_val, origin_val, pct), DeltaCells(e, origin_val, k + 1))

\* Lines 89-94 for the column at index k, once float() has been applied.
DeltaCell(e, origin_val, k, new_val) ==
  IF ~IsNumber(new_val) THEN Raised(<<>>, "ValueError")
  ELSE DeltaPrinted(e, origin_val, k, new_val, Pct(new_val, origin_val))

\* The loop of lines 88-94 over loaded_filenames[k:] for event e.
DeltaCells(e, origin_val, k) ==
  IF k >= Len(loaded_filenames) THEN Printed(<<>>)
  ELSE IF e \notin DOMAIN eventdata[loaded_filenames[k + 1]] THEN Raised(<<>>, "KeyError")
  ELSE DeltaCell(e, origin_val, k, ParseFloat(eventdata[loaded_filenames[k + 1]][e]))

\* The first two prints of a row (lines 82-83).
RowStart(e) == << Line("tr", <<>>), Line("td", << TdText(e) >>) >>

\* Lines 86-95 of the row of event e, once origin_val is computed.
RowCells(e, origin_val) ==
  IF ~IsNumber(origin_val) THEN Raised(RowStart(e), "ValueError")
  ELSE After(RowStart(e) \o << Line("td", << TdSci("", origin_val) >>) >>,
             CloseRow(DeltaCells(e, origin_val, 1)))

\* Lines 82-95: the row of event e.
RowLines(e) ==
  IF e \notin DOMAIN eventdata[loaded_filenames[1]]
  THEN Raised(RowStart(e), "KeyError")
  ELSE RowCells(e, ParseFloat(eventdata[loaded_filenames[1]][e]))

\* Lines 79-95: one pass of the loop over sorted(eventnames), for its entry e.
RowPass(e) ==
  IF e = NAME_KEY \/ e = PATCH_KEY THEN Printed(<<>>) ELSE RowLines(e)

(***************************************************************************)
(* perf_diff_to_html_table.py: the inputs of a run                         *)
(***************************************************************************)

MaxArgs   == 3      \* at most this many file arguments
MaxEvents == 2      \* at most this many event lines in a file

Prog  == "perf_diff_to_html_table.py"
Paths == {"base.txt", "new.txt"}

\* "key value" as a line of text.
KV(k, v) == k \o <<" ">> \o v

NameA        == KV(NAME_KEY, <<"A">>)
NameB        == KV(NAME_KEY, <<"B">>)
NameBare     == NAME_KEY                               \* no value: 'n/a'
PatchU       == KV(PATCH_KEY, <<"u">>)
PatchEmpty   == PATCH_KEY \o <<" ", " ", "u">>         \* y[1] is ''
PatchBare    == PATCH_KEY \o <<" ">>                   \* stripped; no value: 'n/a'
CommentLine  == <<"#", " ", "e", "v", " ", "1">>
BlankLine    == <<" ", "">>                         \* space, vertical tab

Ev(v) == KV(<<"e", "v">>, v)
Bv(v) == KV(<<"b">>, v)

\* The lines before the events of the file at path p.  The inputs of
\* Spec ("general") vary the reserved keys; those of SpecValues ("values")
\* vary the events and their values.
Headers(dom, p) ==
  IF dom = "values"
  THEN IF p = "base.txt" THEN { <<NameA, PatchU>> } ELSE { <<NameB, PatchU>> }
  ELSE IF p = "base.txt"
  THEN { <<>>, <<NameA>>, <<CommentLine, NameA, PatchU>> }
  ELSE { <<BlankLine, NameA, NameB, PatchEmpty>>, <<NameBare, PatchBare>> }

\* The event lines of the file at path p.
EventLines(dom, p) ==
  IF dom = "values"
  THEN IF p = "base.txt"
       THEN { Ev(<<"0">>), Ev(<<"3">>), Bv(<<"2", "0", "0", "0">>) }
       ELSE { Ev(<<"", "3", ".", "0">>) \o <<" ">>,
              Ev(<<"9", ".", "9", "5">>), Bv(<<"1">>) }
  ELSE IF p = "base.txt"
  THEN { Ev(<<"5">>), Bv(<<"x">>) }
  ELSE { Ev(<<"7">>), Bv(<<"1">>) }

SeqsUpTo(S, n) == UNION { [1..k -> S] : k \in 0..n }

FileContents(dom, p) ==
  { h \o b : h \in Headers(dom, p), b \in SeqsUpTo(EventLines(dom, p), MaxEvents) }

\* The command lines: any file arguments in the general inputs; one baseline
\* and up to two comparison columns in the inputs that vary the values.
Argvs(dom) ==
  IF dom = "values"
  THEN { <<Prog>>,
         <<Prog, "base.txt">>,
         <<Prog, "base.txt", "new.txt">>,
         <<Prog, "base.txt", "base.txt">>,
         <<Prog, "base.txt", "new.txt", "new.txt">> }
  ELSE { <<Prog>> \o f : f \in SeqsUpTo(Paths, MaxArgs) }

\* The files that can be read: a file the command line does not name is never
\* opened, so only named files are given a content; a named file without a
\* content is one that cannot be opened.
FileSystems(dom, argv) ==
  UNION { { f \in [D -> UNION { FileContents(dom, p) : p \in D }] :
              \A p \in D : f[p] \in FileContents(dom, p) } :
          D \in IF dom = "values"
                THEN { Range(Tail(argv)) }
                ELSE SUBSET Range(Tail(argv)) }

(***************************************************************************)
(* perf_diff_to_html_table.py: the script                                  *)
(***************************************************************************)

\* plot_measure.py is not running.
PlotIdle ==
  /\ plot_files = {}
  /\ plot_pc = "idle"
  /\ plot_lines = <<>>
  /\ known_impls = EmptyDict
  /\ known_ops = EmptyDict
  /\ impl_measures = EmptyDict
  /\ plot_err = ""

\* The state when the script starts, its inputs drawn from the domain dom.
InitOf(dom) ==
  /\ sys_argv \in Argvs(dom)
  /\ fs \in FileSystems(dom, sys_argv)
  /\ pc = "main"
  /\ i = 0
  /\ loadindex = 0
  /\ loaded_columnnames = <<>>
  /\ loaded_filenames = <<>>
  /\ known_eventnames = EmptyDict
  /\ eventnames = <<>>
  /\ eventdata = EmptyDict
  /\ row = 0
  /\ out = <<>>
  /\ err = ""
  /\ exit_status = -1
  /\ PlotIdle

Init == InitOf("general")

InitValues == InitOf("values")

\* Mutation of TooFewArgs: the bound is off by one.
TooFewArgsOffByOne == Len(sys_argv) < 3

\* The test of line 99.
TooFewArgs == Len(sys_argv) < 2

\* Lines 99-102: too few arguments.
Usage ==
  /\ pc = "main"
  /\ TooFewArgs
  /\ out' = out \o << [tag |-> "usage", cells |-> << [el |-> "text", prog |-> sys_argv[1]] >>],
                      [tag |-> "usage-where", cells |-> <<>>] >>
  /\ exit_status' = 1
  /\ pc' = "exit"
  /\ UNCHANGED << sys_argv, fs, i, globals, row, err, plot_vars >>

\* Lines 99 and 104: enough arguments, the load loop starts.
MainArgs ==
  /\ pc = "main"
  /\ ~TooFewArgs
  /\ pc' = "load"
  /\ i' = 0
  /\ UNCHANGED << sys_argv, fs, globals, row, out, err, exit_status, plot_vars >>

\* Lines 106-108: one pass of the load loop, a whole call of read_filename.
ReadFilename ==
  /\ pc = "load"
  /\ i < Len(filenames)
  /\ \E g \in { read_filename(filenames[i + 1], Globals) } :
         /\ loadindex' = g.loadindex
         /\ loaded_columnnames' = g.colnames
         /\ loaded_filenames' = g.files
         /\ known_eventnames' = g.known
         /\ eventnames' = g.names
         /\ eventdata' = g.data
         /\ err' = g.err
         /\ i' = IF g.err = "" THEN i + 1 ELSE i
         /\ pc' = IF g.err = "" THEN "load" ELSE "exit"
         /\ exit_status' = IF g.err = "" THEN exit_status ELSE 1
  /\ UNCHANGED << sys_argv, fs, row, out, plot_vars >>

\* Line 110 and lines 63-77: print_html is entered and prints the header row.
PrintHeader ==
  /\ pc = "load"
  /\ i >= Len(filenames)
  /\ \E h \in { HeaderLines } :
         /\ out' = out \o h.lines
         /\ err' = h.err
         /\ pc' = IF h.err = "" THEN "rows" ELSE "exit"
         /\ exit_status' = IF h.err = "" THEN exit_status ELSE 1
  /\ row' = 0
  /\ UNCHANGED << sys_argv, fs, i, globals, plot_vars >>

\* Lines 79-95: one pass of the loop over sorted(eventnames).
PrintRow ==
  /\ pc = "rows"
  /\ row < Len(eventnames)
  /\ \E r \in { RowPass(sorted(eventnames)[row + 1]) } :
         /\ out' = out \o r.lines
         /\ err' = r.err
         /\ pc' = IF r.err = "" THEN "rows" ELSE "exit"
         /\ row' = IF r.err = "" THEN row + 1 ELSE row
         /\ exit_status' = IF r.err = "" THEN exit_status ELSE 1
  /\ UNCHANGED << sys_argv, fs, i, globals, plot_vars >>

\* Line 96, and the script ends.
PrintFooter ==
  /\ pc = "rows"
  /\ row >= Len(eventnames)
  /\ out' = Append(out, Line("/table", <<>>))
  /\ pc' = "exit"
  /\ exit_status' = 0
  /\ UNCHANGED << sys_argv, fs, i, globals, row, err, plot_vars >>

Next ==
  \/ Usage
  \/ MainArgs
  \/ ReadFilename
  \/ PrintHeader
  \/ PrintRow
  \/ PrintFooter

Spec == Init /\ [][Next]_vars

SpecValues == InitValues /\ [][Next]_vars

(***************************************************************************)
(* plot_measure.py: the parse loop (lines 19-46)                           *)
(***************************************************************************)

MaxPlotLines == 3      \* at most this many lines are read from the input file

HIST == << "H", "I", "S", "T" >>

\* The digits after the sign, and after the whitespace that may follow it: a
\* Python int of any size, as its sign and its magnitude.
ParseIntDigits(neg, ds) ==
  IF ds # <<>> /\ AllDigits(ds)
  THEN [kind |-> "int", neg |-> (neg /\ DigitsToBig(ds) # <<>>), mag |-> DigitsToBig(ds)]
  ELSE ValueError

ParseIntStripped(s) ==
  IF s # <<>> /\ s[1] \in {"+", "-"}
  THEN ParseIntDigits(s[1] = "-", lstrip(Tail(s)))
  ELSE ParseIntDigits(FALSE, s)

\* numpy.int(text), which is int(text): [sign] digits, with whitespace ignored
\* around the text and between the sign and the digits.
ParseInt(text) == ParseIntStripped(strip(text))

LongBits == 63      \* a C long holds -2^63 .. 2^63 - 1

\* xrange(count) takes what fits a C long.
FitsLong(count) ==
  \/ BigCmp(count.mag, BigShl(<<1>>, LongBits)) < 0
  \/ count.neg /\ count.mag = BigShl(<<1>>, LongBits)

\* A list of ints is held as its runs: a value and the number of times (a
\* positive natural of any size) it stands in a row, neighbouring runs having
\* different values.  The list [1, 1, 20] is the runs (1, 2 times), (20, once).

\* [bucket for i in xrange(count)] (line 38): empty when count <= 0.
Repeat(bucket, count) ==
  IF count.neg \/ count.mag = <<>> THEN <<>>
  ELSE << [value |-> bucket, times |-> count.mag] >>

\* list.extend(arr): the entries of arr follow those of list.
Extend(list, arr) ==
  IF list = <<>> THEN arr
  ELSE IF arr = <<>> THEN list
  ELSE IF list[Len(list)].value # arr[1].value THEN list \o arr
  ELSE SubSeq(list, 1, Len(list) - 1)
       \o << [value |-> arr[1].value, times |-> BigAdd(list[Len(list)].times, arr[1].times)] >>
       \o Tail(arr)

\* What the memory of the machine does with the count entries line 38
\* allocates and the count entries line 46 adds to the list: both fit, line 38
\* raises MemoryError, line 46 raises MemoryError, or the system ends the
\* process while it allocates.  Which it is depends on the machine, not on
\* the count alone.
MemOutcomes == { "enough", "MemoryError at line 38", "MemoryError at line 46", "killed" }

\* Lines 40-42; pm holds known_impls, known_ops and impl_measures.
AddImpl(pm, impl) ==
  IF impl \in DOMAIN pm.measures THEN pm
  ELSE [pm EXCEPT !.measures = (impl :> EmptyDict) @@ @,
                  !.impls    = (impl :> 1) @@ @]

\* Lines 43-45.
AddOp(pm, impl, op) ==
  IF op \in DOMAIN pm.measures[impl] THEN pm
  ELSE [pm EXCEPT !.measures[impl] = (op :> <<>>) @@ @,
                  !.ops            = (op :> 1) @@ @]

\* Mutation of ExtendMeasures: the list is replaced, not extended.
ExtendMeasuresReplace(pm, impl, op, arr) ==
  [pm EXCEPT !.measures[impl][op] = arr]

\* Line 46.
ExtendMeasures(pm, impl, op, arr) ==
  [pm EXCEPT !.measures[impl][op] = Extend(@, arr)]

\* Lines 38-46 under the memory outcome mem.  The list of line 38 is built
\* before anything is registered; a failure of line 46 comes after lines 40-45
\* and leaves the list as it was.  A count <= 0 allocates no entry.
Measure(pm, impl, op, bucket, count, mem) ==
  IF ~FitsLong(count) THEN [pm EXCEPT !.err = "OverflowError"]
  ELSE IF Repeat(bucket, count) = <<>> \/ mem = "enough"
  THEN ExtendMeasures(AddOp(AddImpl(pm, impl), impl, op), impl, op, Repeat(bucket, count))
  ELSE IF mem = "killed" THEN [pm EXCEPT !.err = "Killed"]
  ELSE IF mem = "MemoryError at line 38" THEN [pm EXCEPT !.err = "MemoryError"]
  ELSE [AddOp(AddImpl(pm, impl), impl, op) EXCEPT !.err = "MemoryError"]

\* Lines 34-46 for the fields y of a HIST line: 'HIST' <impl> <op> <bucket> <count>.
HistLine(y, pm, mem) ==
  IF Len(y) < 4 THEN [pm EXCEPT !.err = "IndexError"]
  ELSE IF ParseInt(y[4]).kind # "int" THEN [pm EXCEPT !.err = "ValueError"]
  ELSE IF Len(y) < 5 THEN [pm EXCEPT !.err = "IndexError"]
  ELSE IF ParseInt(y[5]).kind # "int" THEN [pm EXCEPT !.err = "ValueError"]
  ELSE Measure(pm, y[2], y[3], ParseInt(y[4]), ParseInt(y[5]), mem)

\* Lines 30-32.
PlotFields(y, pm, mem) == IF y[1] # HIST THEN pm ELSE HistLine(y, pm, mem)

\* Lines 27-30.
PlotStripped(x, pm, mem) == IF x = <<>> THEN pm ELSE PlotFields(split(x, " "), pm, mem)

\* One pass of the loop body (lines 25-46).
PlotLine(x, pm, mem) == PlotStripped(rstrip(x), pm, mem)

\* "HIST impl op bucket count" as a line of text.
HistText(impl, op, bucket, count) ==
  HIST \o <<" ">> \o impl \o <<" ">> \o op \o <<" ">> \o bucket \o <<" ">> \o count

\* The lines the input file is made of.
PlotInputLines ==
  { HistText(<<"a">>, <<"r">>, bucket, <<"2">>) : bucket \in { <<"1">>, <<"2", "0">> } }
  \cup { HistText(impl, <<"r">>, <<"1">>, <<"-", "\t", "1">>) : impl \in { <<"a">>, <<"b">> } }
  \cup { HistText(<<"b">>, <<"r">>, <<"1">>, <<"2">>),
         HistText(<<"a">>, <<"w">>, <<"1">>, <<"2">>),
         HistText(<<"b">>, <<"w">>, <<"2", "0">>, <<"0">>),
         <<" ", "">>,
         <<"h", "i", "s", "t">> \o <<" ", "a", " ", "r", " ", "1", " ", "2">>,
         HistText(<<"a">>, <<"r">>, <<"x">>, <<"1">>),
         HistText(<<"a">>, <<"r">>, <<"1">>,
                  <<"9","2","2","3","3","7","2","0","3","6","8","5","4","7","7","5","8","0","8">>),
         HIST \o <<" ", "a", " ", "r", " ", "1">> }

\* perf_diff_to_html_table.py is not running.
PerfIdle ==
  /\ fs = EmptyDict
  /\ pc = "idle"
  /\ i = 0
  /\ loadindex = 0
  /\ loaded_columnnames = <<>>
  /\ loaded_filenames = <<>>
  /\ known_eventnames = EmptyDict
  /\ eventnames = <<>>
  /\ eventdata = EmptyDict
  /\ row = 0
  /\ out = <<>>
  /\ err = ""
  /\ exit_status = -1

\* The state when the script starts; one argument is what line 17 takes.
PlotInit ==
  /\ PerfIdle
  /\ sys_argv \in { <<"plot_measure.py">>,
                    <<"plot_measure.py", "in.txt">>,
                    <<"plot_measure.py", "in.txt", "extra">> }
  /\ plot_files \in SUBSET {"in.txt"}
  /\ plot_pc = "start"
  /\ plot_lines = <<>>
  /\ known_impls = EmptyDict
  /\ known_ops = EmptyDict
  /\ impl_measures = EmptyDict
  /\ plot_err = ""

\* Line 17 unpacks sys.argv into two names and line 23 opens the file: the
\* exception raised, "" when the loop of line 24 is entered.
StartError(argv, files) ==
  IF Len(argv) # 2 THEN "ValueError"
  ELSE IF argv[2] \notin files THEN "IOError"
  ELSE ""

\* Lines 17-23.
PlotStart ==
  /\ plot_pc = "start"
  /\ plot_err' = StartError(sys_argv, plot_files)
  /\ plot_pc' = IF StartError(sys_argv, plot_files) = "" THEN "parse" ELSE "exit"
  /\ UNCHANGED << plot_files, plot_lines, known_impls, known_ops, impl_measures >>
  /\ UNCHANGED perf_vars

\* Lines 24-46: the loop takes the next line x of the file.
ParseLine ==
  /\ plot_pc = "parse"
  /\ Len(plot_lines) < MaxPlotLines
  /\ \E x \in PlotInputLines, mem \in MemOutcomes :
       \E pm \in { PlotLine(x, [impls |-> known_impls, ops |-> known_ops,
                                 measures |-> impl_measures, err |-> ""], mem) } :
         /\ plot_lines' = Append(plot_lines, x)
         /\ known_impls' = pm.impls
         /\ known_ops' = pm.ops
         /\ impl_measures' = pm.measures
         /\ plot_err' = pm.err
         /\ plot_pc' = IF pm.err = "" THEN "parse" ELSE "exit"
  /\ UNCHANGED << perf_vars, plot_files >>

\* Line 24: the file has no further line; the loop ends (line 52 is next).
EndOfFile ==
  /\ plot_pc = "parse"
  /\ plot_pc' = "layout"
  /\ UNCHANGED << plot_files, plot_lines, known_impls, known_ops, impl_measures, plot_err >>
  /\ UNCHANGED perf_vars

PlotNext ==
  \/ PlotStart
  \/ ParseLine
  \/ EndOfFile

SpecPlot == PlotInit /\ [][PlotNext]_vars

(***************************************************************************)
(* Reading the printed table back                                          *)
(***************************************************************************)

\* print_html has been entered: its first print has happened.
TableOpened == out # <<>> /\ out[1].tag = "table"

\* The value lines of the rows printed so far, read in one pass from line k
\* on: every '<td>' line but the one that names the event, with the event of
\* its row and its column counted from 0 (the baseline cell comes first, the
\* comparison columns follow in order).  col is -1 right after a '<tr>'.
RECURSIVE ValueCellsFrom(_, _, _, _)
ValueCellsFrom(lines, k, event, col) ==
  IF k > Len(lines) THEN <<>>
  ELSE IF lines[k].tag = "tr" THEN ValueCellsFrom(lines, k + 1, <<>>, -1)
  ELSE IF lines[k].tag # "td" THEN ValueCellsFrom(lines, k + 1, event, col)
  ELSE IF col = -1 THEN ValueCellsFrom(lines, k + 1, lines[k].cells[1].text, 0)
  ELSE << [event |-> event, col |-> col, cells |-> lines[k].cells] >>
       \o ValueCellsFrom(lines, k + 1, event, col + 1)

ValueCells == Range(ValueCellsFrom(out, 1, <<>>, -1))

\* The number event e has in the file of column k (counted from 0).
ValueAt(k, e) == ParseFloat(eventdata[loaded_filenames[k + 1]][e])

(***************************************************************************)
(* C1: in print_html, for every rendered event row and every comparison    *)
(* column, both cells of the column carry class perfstatincr exactly when  *)
(* the column's value is strictly greater than the baseline value of that  *)
(* event, and perfstatdecr otherwise (so equal values are a decrease); the *)
(* baseline cell carries neither class.                                    *)
(***************************************************************************)
\* The cells of column col carry the class that goes with value V and
\* baseline value B.
ClassMatches(cells, col, V, B) ==
  IF col = 0
  THEN Len(cells) = 1 /\ cells[1].cls = ""
  ELSE /\ Len(cells) = 2
       /\ \A c \in 1..2 :
            cells[c].cls = IF FloatGt(V, B) THEN "perfstatincr" ELSE "perfstatdecr"

C1_ClassIffStrictlyGreater ==
  \A v \in ValueCells :
    ClassMatches(v.cells, v.col, ValueAt(v.col, v.event), ValueAt(0, v.event))

\* A finished table with a comparison column whose value equals the baseline's
\* while its text differs ('3.0' against '3'): a decrease.
C1_Witness ==
  /\ pc = "exit" /\ exit_status = 0
  /\ \E v \in ValueCells :
       /\ v.col > 0
       /\ v.cells[1].cls = "perfstatdecr"
       /\ eventdata[loaded_filenames[v.col + 1]][v.event]
            # eventdata[loaded_filenames[1]][v.event]
       /\ ~FloatGt(ValueAt(0, v.event), ValueAt(v.col, v.event))

(***************************************************************************)
(* C2: for every rendered event row and every comparison column with       *)
(* baseline value B and column value V, the percentage shown is            *)
(* 100 * V / B when B is not 0 and 0 when B is 0; a zero baseline never    *)
(* raises an arithmetic error, whatever V is.                              *)
(***************************************************************************)
\* |a - b|
\* a * b
RECURSIVE BigMul(_, _)
BigMul(a, b) ==
  IF a = <<>> \/ b = <<>> THEN <<>>
  ELSE BigAdd(BigMulSmall(a, b[1]),
              IF Len(b) = 1 THEN <<>> ELSE <<0>> \o BigMul(a, Tail(b)))

AbsDiff(a, b) == IF BigCmp(a, b) >= 0 THEN BigSub(a, b) ELSE BigSub(b, a)

\* |T/10 - 100 * Vn / Bn| <= 1/20 + (100 * Vn / Bn) / 2^50, for naturals T, Vn
\* and Bn > 0: T/10 is 100 * Vn / Bn to the one decimal that is shown.  The
\* second term is the room of the two roundings of line 90, each within
\* 2^-53 of the value; the inequality is taken times 20 * Bn * 2^50.
WithinHalfTenth(T, Vn, Bn) ==
  BigCmp(BigShl(AbsDiff(BigMulSmall(BigMul(T, Bn), 2), BigMulSmall(Vn, 2000)), 50),
         BigAdd(BigShl(Bn, 50), BigMulSmall(Vn, 2000))) <= 0

\* pct is what is shown for 100 * Vn / Bn, a number or, beyond the largest
\* double, an infinity.
ShowsQuotient(pct, Vn, Bn) ==
  \/ pct.kind = "num" /\ WithinHalfTenth(DigitsToBig(pct.tenths), Vn, Bn)
  \/ pct.kind = "inf" /\ BigCmp(BigMulSmall(Vn, 100), BigShl(Bn, TopExp - 1)) >= 0

\* pct is the percentage to show for value V and baseline B.
ShowsPercentage(pct, V, B) ==
  IF V.kind = "num" /\ B.kind = "num"
  THEN IF B.m = <<>>
       THEN pct = [kind |-> "num", neg |-> FALSE, tenths |-> <<"0">>]
       ELSE /\ pct.neg = (V.neg # B.neg)
            /\ ShowsQuotient(pct, BigShl(V.m, Max(V.e - B.e, 0)), BigShl(B.m, Max(B.e - V.e, 0)))
  ELSE pct = FmtF1(FloatMul100(FloatDiv(V, B)))

C2_PercentageOfBaseline ==
  /\ err # "ZeroDivisionError"
  /\ \A v \in ValueCells :
       v.col > 0 => ShowsPercentage(v.cells[2].pct, ValueAt(v.col, v.event), ValueAt(0, v.event))

\* A finished table with a zero baseline under a non-zero value, shown as 0.0%.
C2_Witness ==
  /\ pc = "exit" /\ exit_status = 0
  /\ \E v \in ValueCells :
       /\ v.col > 0
       /\ ValueAt(0, v.event).m = <<>>
       /\ ValueAt(v.col, v.event).m # <<>>
       /\ v.cells[2].pct.tenths = <<"0">>

(***************************************************************************)
(* Reading the input files, as the file format describes them              *)
(***************************************************************************)

\* A line that is neither empty nor a comment.
IsDataLine(x) == rstrip(x) # <<>> /\ rstrip(x)[1] # "#"

\* The positions of the data lines of the file at path whose key is key.
LinesWithKey(path, key) ==
  { n \in 1..Len(fs[path]) :
      IsDataLine(fs[path][n]) /\ split(rstrip(fs[path][n]), " ")[1] = key }

FileHasKey(path, key) == LinesWithKey(path, key) # {}

\* The fields of the last line of the file with that key.
LastFields(path, key) ==
  LET ns == LinesWithKey(path, key)
  IN split(rstrip(fs[path][CHOOSE n \in ns : \A m \in ns : m <= n]), " ")

\* The file has a '__PATCH__' line that carries a non-empty value.
HasPatchValue(path) ==
  /\ FileHasKey(path, PATCH_KEY)
  /\ Len(LastFields(path, PATCH_KEY)) > 1
  /\ LastFields(path, PATCH_KEY)[2] # <<>>

\* The column label the file gives: the value of its last '__NAME__' line.
NameOf(path) ==
  LET y == LastFields(path, NAME_KEY) IN IF Len(y) > 1 THEN y[2] ELSE NA

RECURSIVE CellCount(_)
CellCount(lines) ==
  IF lines = <<>> THEN 0
  ELSE (IF Head(lines).tag = "th" THEN Len(Head(lines).cells) ELSE 0) + CellCount(Tail(lines))

\* The number of '<th>' cells printed.
HeaderCells == CellCount(out)

Reserved == { NAME_KEY, PATCH_KEY }

(***************************************************************************)
(* C3: a '__PATCH__' key is optional in every input file: a comparison     *)
(* column's header holds a 'patch' hyperlink exactly when its file has a   *)
(* '__PATCH__' key with a non-empty value; when the key is absent, or      *)
(* present with no value, the header of the column is the label cell and   *)
(* the '%' cell, without a hyperlink and without an error.                 *)
(* The code does not do this: the lookup of line 72 raises when the key is *)
(* absent, and a key without a value is stored as 'n/a', which is linked.  *)
(***************************************************************************)
C3_PatchOptional ==
  TableOpened =>
    \A k \in 1..(Len(loaded_filenames) - 1) :
      /\ Len(out) >= 4 + k
      /\ out[4 + k].tag = "th"
      /\ Len(out[4 + k].cells) = 2
      /\ (out[4 + k].cells[1].href # NoHref) <=> HasPatchValue(loaded_filenames[k + 1])

(***************************************************************************)
(* C4: for N >= 1 well-formed input files that share identical event sets, *)
(* the header row print_html writes has exactly 1 + 1 + 2*(N-1) header     *)
(* cells, whether or not any column has a patch reference.                 *)
(* The code stops in the header row when a comparison column has no        *)
(* '__PATCH__' key (see C3).                                               *)
(***************************************************************************)
WellFormedFiles ==
  \A f \in Range(loaded_filenames) :
    \A e \in DOMAIN eventdata[f] \ Reserved : IsNumber(ParseFloat(eventdata[f][e]))

SameEventSets ==
  \A f, g \in Range(loaded_filenames) : DOMAIN eventdata[f] = DOMAIN eventdata[g]

C4_HeaderCellCount ==
  (TableOpened /\ WellFormedFiles /\ SameEventSets) =>
    HeaderCells = 1 + 1 + 2 * (Len(loaded_filenames) - 1)

(***************************************************************************)
(* C6: if an input file has no '__NAME__' key (a file with no data line    *)
(* included), read_filename fails on it with a key lookup error, the run   *)
(* ends before print_html is entered, and nothing is written: no header,   *)
(* blank or otherwise, and no other table output.                          *)
(***************************************************************************)
\* The file arguments (counted from 1) that can be read and hold no '__NAME__'.
Nameless ==
  { k \in 1..Len(filenames) :
      filenames[k] \in DOMAIN fs /\ ~FileHasKey(filenames[k], NAME_KEY) }

C6_MissingNameIsFatal ==
  \A k \in Nameless :
    /\ out = <<>>
    /\ pc # "rows"
    /\ i < k
    /\ loadindex < k
    /\ (pc = "exit" /\ i + 1 = k) => (err = "KeyError" /\ exit_status = 1)

\* The second file is empty: the first was loaded, then the lookup error.
C6_Witness ==
  /\ pc = "exit" /\ err = "KeyError" /\ out = <<>>
  /\ i = 1 /\ loadindex = 1
  /\ fs[filenames[2]] = <<>>

(***************************************************************************)
(* C7: started with no file argument (fewer than 2 argv entries), the      *)
(* script prints a usage message that holds the program name and exits     *)
(* with status 1, without loading any data or writing any table output;    *)
(* with one or more file arguments it never takes the usage path.          *)
(***************************************************************************)
UsageLines == { j \in 1..Len(out) : out[j].tag \in {"usage", "usage-where"} }

C7_UsageOnTooFewArguments ==
  /\ Len(sys_argv) < 2 =>
       /\ pc \in {"main", "exit"}
       /\ loadindex = 0 /\ i = 0
       /\ loaded_filenames = <<>> /\ loaded_columnnames = <<>>
       /\ DOMAIN eventdata = {} /\ eventnames = <<>>
       /\ ~TableOpened
       /\ pc = "exit" =>
            /\ exit_status = 1
            /\ Len(out) = 2
            /\ out[1].tag = "usage"
            /\ out[1].cells[1].prog = sys_argv[1]
  /\ Len(sys_argv) >= 2 => UsageLines = {}

C7_Witness ==
  /\ Len(sys_argv) < 2
  /\ pc = "exit" /\ exit_status = 1
  /\ UsageLines = {1, 2}

(***************************************************************************)
(* C8 as stated: a run produces no partial output: either the complete     *)
(* table, from '<table class="perfstats">' through '</table>', is written  *)
(* or no table output at all, for every failure the run can hit: an        *)
(* unreadable input file, a missing '__NAME__' key, an event of the        *)
(* universe that is absent from some column's map, a non-numeric value.    *)
(***************************************************************************)
CompleteTable == TableOpened /\ out[Len(out)].tag = "/table"

C8_NoPartialOutput ==
  pc = "exit" => (~TableOpened \/ CompleteTable)

(***************************************************************************)
(* C8 as amended: a failure while the files are loaded (an unreadable      *)
(* file, a missing '__NAME__' key) leaves no table output.  A failure      *)
(* inside print_html (a comparison column without '__PATCH__', an event    *)
(* absent from a column's map, a non-numeric value) leaves a partial       *)
(* table: the output starts with the opening '<table>' line and holds no   *)
(* '</table>'.  The complete table is written exactly when the run ends    *)
(* with status 0.                                                          *)
(***************************************************************************)
C8_PartialOutputOnlyFromPrintHtml ==
  pc = "exit" /\ ~TooFewArgs =>
    /\ (exit_status = 0) <=> CompleteTable
    /\ (exit_status = 0) <=> (err = "")
    /\ (err # "" /\ loadindex < Len(filenames)) =>
         (out = <<>> /\ err \in {"IOError", "KeyError"})
    /\ (err # "" /\ loadindex = Len(filenames)) =>
         /\ TableOpened
         /\ \A j \in 1..Len(out) : out[j].tag # "/table"
         /\ err \in {"KeyError", "ValueError"}

\* A non-numeric value stops print_html inside a row, after the header row.
C8_Witness ==
  /\ pc = "exit" /\ err = "ValueError"
  /\ TableOpened
  /\ \E j \in 1..Len(out) : out[j].tag = "/tr"
  /\ out[Len(out)].tag = "td"

(***************************************************************************)
(* C9: column order is stable and matches input order: after the k-th      *)
(* successful read_filename call, loadindex = k, loaded_filenames and      *)
(* loaded_columnnames have length k, loaded_filenames[i] is the i-th file  *)
(* argument and loaded_columnnames[i] is the '__NAME__' value of that      *)
(* file, also when a path is given more than once.  The render phase       *)
(* starts only after all files are loaded and uses index 0 as the baseline *)
(* of every comparison.                                                    *)
(***************************************************************************)
C9_ColumnOrder ==
  /\ Len(loaded_filenames) = loadindex
  /\ Len(loaded_columnnames) = loadindex
  /\ loadindex <= Len(filenames)
  /\ pc = "load" => loadindex = i
  /\ \A k \in 1..loadindex :
       /\ loaded_filenames[k] = filenames[k]
       /\ loaded_columnnames[k] = NameOf(filenames[k])
  /\ TableOpened => loadindex = Len(filenames)
  /\ \A v \in ValueCells :
       /\ v.cells[1].sci = FmtE1(ValueAt(v.col, v.event))
       /\ ClassMatches(v.cells, v.col, ValueAt(v.col, v.event), ValueAt(0, v.event))
       /\ v.col > 0 =>
            ShowsPercentage(v.cells[2].pct, ValueAt(v.col, v.event), ValueAt(0, v.event))

\* Three columns are loaded, the first path given twice, the labels differing;
\* the cells of the third column are printed, and they are not the ones a
\* baseline taken from the second column would give.
C9_Witness ==
  /\ loadindex = 3
  /\ loaded_filenames = << "new.txt", "base.txt", "new.txt" >>
  /\ loaded_columnnames = << <<"B">>, <<"A">>, <<"B">> >>
  /\ \E v \in ValueCells :
       /\ v.col = 2
       /\ ValueAt(0, v.event) # ValueAt(1, v.event)
       /\ ~ShowsPercentage(v.cells[2].pct, ValueAt(2, v.event), ValueAt(1, v.event))
       /\ ~ClassMatches(v.cells, 2, ValueAt(2, v.event), ValueAt(1, v.event))

(***************************************************************************)
(* C5 as stated: after any sequence of read_filename calls (repeated keys  *)
(* in a file and keys shared by files included), eventnames holds each     *)
(* distinct event name once, in first-seen order, and equals the key set   *)
(* of known_eventnames; a repeated key only overwrites that column's       *)
(* value.  The rows print_html emits are then exactly the distinct event   *)
(* names other than '__NAME__' and '__PATCH__', one row each, in sorted    *)
(* order, so the number of rows is the count of distinct non-reserved      *)
(* event names across all input files.                                     *)
(***************************************************************************)
\* The keys of the data lines of a file, in line order.
RECURSIVE KeysOfLines(_)
KeysOfLines(lines) ==
  IF lines = <<>> THEN <<>>
  ELSE (IF IsDataLine(Head(lines))
        THEN << split(rstrip(Head(lines)), " ")[1] >> ELSE <<>>)
       \o KeysOfLines(Tail(lines))

\* The keys read by the first n read_filename calls, in reading order.
RECURSIVE KeysRead(_)
KeysRead(n) ==
  IF n = 0 THEN <<>>
  ELSE KeysRead(n - 1)
       \o (IF filenames[n] \in DOMAIN fs THEN KeysOfLines(fs[filenames[n]]) ELSE <<>>)

\* The number of read_filename calls made so far, a failed one included.
CallsMade == IF pc = "exit" /\ loadindex = i /\ i < Len(filenames) THEN i + 1 ELSE i

\* s without the later occurrences of its entries.
RECURSIVE FirstSeen(_)
FirstSeen(s) ==
  IF s = <<>> THEN <<>>
  ELSE IF s[Len(s)] \in Range(SubSeq(s, 1, Len(s) - 1))
       THEN FirstSeen(SubSeq(s, 1, Len(s) - 1))
       ELSE Append(FirstSeen(SubSeq(s, 1, Len(s) - 1)), s[Len(s)])

\* The events of the rows printed so far, in printing order.
RECURSIVE RowNames(_)
RowNames(lines) ==
  IF Len(lines) < 2 THEN <<>>
  ELSE (IF lines[1].tag = "tr" /\ lines[2].tag = "td"
        THEN << lines[2].cells[1].text >> ELSE <<>>)
       \o RowNames(Tail(lines))

NonReserved == Range(eventnames) \ Reserved

\* The number of rows printed in full, the header row included.
ClosedRows == Cardinality({ j \in 1..Len(out) : out[j].tag = "/tr" })

EventNamesFirstSeen ==
  /\ ~TooFewArgs => eventnames = FirstSeen(KeysRead(CallsMade))
  /\ \A a, b \in 1..Len(eventnames) : a # b => eventnames[a] # eventnames[b]
  /\ Range(eventnames) = DOMAIN known_eventnames
  /\ \A f \in DOMAIN eventdata : \A e \in DOMAIN eventdata[f] :
       /\ FileHasKey(f, e)
       /\ LET y == LastFields(f, e) IN eventdata[f][e] = IF Len(y) > 1 THEN y[2] ELSE NA

\* The rows are in strictly ascending order.
RowsSorted(rows) ==
  \A a, b \in 1..Len(rows) : a < b => StrLess(rows[a], rows[b])

\* The rows are all the distinct non-reserved names, in sorted order.
AllRows(rows) ==
  /\ RowsSorted(rows)
  /\ Range(rows) = NonReserved
  /\ Len(rows) = Cardinality(NonReserved)

\* The rows are the first ones of the sorted list of the non-reserved names.
FirstRows(rows) ==
  /\ RowsSorted(rows)
  /\ Range(rows) \subseteq NonReserved
  /\ \A e \in NonReserved \ Range(rows) :
       \A a \in 1..Len(rows) : StrLess(rows[a], e)

C5_RowsAreTheEventUniverse ==
  /\ EventNamesFirstSeen
  /\ (pc = "exit" /\ TableOpened) => \A rows \in { RowNames(out) } : AllRows(rows)

(***************************************************************************)
(* C5 as amended: the statements about eventnames, known_eventnames and    *)
(* the overwritten value hold as stated.  The rows print_html has started  *)
(* are at every moment the first rows of the sorted list of the distinct   *)
(* non-reserved event names.  A run that ends with status 0 has written    *)
(* the row of every one of these names in full, and then every input file  *)
(* holds every one of these names, with a value float() accepts.  A run    *)
(* that enters print_html and ends otherwise ends with a KeyError or a     *)
(* ValueError, and the rows written in full, the header row counted, are   *)
(* fewer than one more than the distinct names.  A run that does not enter *)
(* print_html writes no row.  A run in which a loaded file lacks a         *)
(* non-reserved name another file has never ends with status 0.            *)
(***************************************************************************)
C5_RowsArePrefixOfTheEventUniverse ==
  /\ EventNamesFirstSeen
  /\ \A rows \in { RowNames(out) } :
       /\ FirstRows(rows)
       /\ (pc = "exit" /\ exit_status = 0) => AllRows(rows)
       /\ ~TableOpened => rows = <<>> /\ ClosedRows = 0
  /\ (pc = "exit" /\ exit_status = 0) =>
       /\ TableOpened
       /\ ClosedRows = 1 + Cardinality(NonReserved)
       /\ loaded_filenames = filenames
       /\ \A f \in Range(loaded_filenames) : \A e \in NonReserved :
            /\ e \in DOMAIN eventdata[f]
            /\ IsNumber(ParseFloat(eventdata[f][e]))
  /\ (pc = "exit" /\ TableOpened /\ exit_status # 0) =>
       /\ err \in {"KeyError", "ValueError"}
       /\ ClosedRows < 1 + Cardinality(NonReserved)
  /\ (pc = "exit"
      /\ \E f \in Range(loaded_filenames) : ~(NonReserved \subseteq DOMAIN eventdata[f]))
       => exit_status # 0

\* A finished table of two files that share their keys: the rows are in
\* sorted order while the names were first seen in the other order.
C5_Witness ==
  /\ pc = "exit" /\ exit_status = 0
  /\ Len(loaded_filenames) = 2
  /\ eventnames = << NAME_KEY, PATCH_KEY, <<"e", "v">>, <<"b">> >>
  /\ RowNames(out) = << <<"b">>, <<"e", "v">> >>

(***************************************************************************)
(* C10 as stated: in plot_measure.py, after the parse loop over any        *)
(* sequence of input lines: lines that are empty or whose first field is   *)
(* not 'HIST' change nothing; for every (impl, op) pair that appeared on a *)
(* HIST line, impl_measures[impl][op] holds each bucket value as many      *)
(* times as the sum of the counts of the HIST lines for that impl, op and  *)
(* bucket (its length is the sum of all counts of the pair), in line       *)
(* order; known_impls is the key set of impl_measures and known_ops is the *)
(* union of the op keys over all impls.                                    *)
(***************************************************************************)
\* The fields of an input line.
FieldsOf(x) == split(rstrip(x), " ")

IsHistLine(x) == rstrip(x) # <<>> /\ FieldsOf(x)[1] = HIST

\* What a HIST line with fields y says.
HistRecord(y) ==
  [impl |-> y[2], op |-> y[3], bucket |-> ParseInt(y[4]),
   count |-> IF ParseInt(y[5]).neg THEN 0 - BigToInt(ParseInt(y[5]).mag)
             ELSE BigToInt(ParseInt(y[5]).mag)]

\* The HIST lines among lines, in line order.
RECURSIVE HistRecords(_)
HistRecords(lines) ==
  IF lines = <<>> THEN <<>>
  ELSE (IF IsHistLine(Head(lines)) THEN << HistRecord(FieldsOf(Head(lines))) >> ELSE <<>>)
       \o HistRecords(Tail(lines))

\* The entries of a list, one by one.
RECURSIVE Entries(_)
Entries(list) ==
  IF list = <<>> THEN <<>>
  ELSE [k \in 1..BigToInt(Head(list).times) |-> Head(list).value] \o Entries(Tail(list))

\* The sum of the counts of the HIST lines hs for impl, op and, when byBucket
\* holds, bucket.
RECURSIVE CountSum(_, _, _, _, _)
CountSum(hs, impl, op, byBucket, bucket) ==
  IF hs = <<>> THEN 0
  ELSE (IF Head(hs).impl = impl /\ Head(hs).op = op
           /\ (byBucket => Head(hs).bucket = bucket)
        THEN Head(hs).count ELSE 0)
       + CountSum(Tail(hs), impl, op, byBucket, bucket)

Occurrences(s, v) == Cardinality({ k \in 1..Len(s) : s[k] = v })

KeySetsAgree(hs) ==
  /\ DOMAIN known_impls = DOMAIN impl_measures
  /\ DOMAIN known_impls = { h.impl : h \in Range(hs) }
  /\ DOMAIN known_ops = UNION { DOMAIN impl_measures[m] : m \in DOMAIN impl_measures }
  /\ DOMAIN known_ops = { h.op : h \in Range(hs) }
  /\ \A h \in Range(hs) : h.op \in DOMAIN impl_measures[h.impl]
  /\ \A m \in DOMAIN impl_measures : \A o \in DOMAIN impl_measures[m] :
       \E h \in Range(hs) : h.impl = m /\ h.op = o

MeasuresAreSums(hs) ==
  \A h \in Range(hs) :
    /\ Len(Entries(impl_measures[h.impl][h.op])) = CountSum(hs, h.impl, h.op, FALSE, 0)
    /\ \A g \in Range(hs) :
         Occurrences(Entries(impl_measures[h.impl][h.op]), g.bucket)
           = CountSum(hs, h.impl, h.op, TRUE, g.bucket)

C10_MeasuresAreSumOfCounts ==
  plot_pc = "layout" =>
    \A hs \in { HistRecords(plot_lines) } : KeySetsAgree(hs) /\ MeasuresAreSums(hs)

(***************************************************************************)
(* C10 as amended: a HIST line adds its bucket value max(count, 0) times:  *)
(* a line with a zero or negative count adds no entry (it still registers  *)
(* its impl and op), it does not lower the number of entries.  With that   *)
(* reading of the counts the statement holds after the loop, and after     *)
(* every pass of it, as long as no pass has raised: the list of each pair  *)
(* is the buckets of its HIST lines, each repeated max(count, 0) times, in *)
(* line order; other lines change nothing; the key sets agree.             *)
(***************************************************************************)
\* What the HIST lines hs add to the list of (impl, op).
RECURSIVE ExpectedMeasures(_, _, _)
ExpectedMeasures(hs, impl, op) ==
  IF hs = <<>> THEN <<>>
  ELSE (IF Head(hs).impl = impl /\ Head(hs).op = op /\ Head(hs).count > 0
        THEN [k \in 1..Head(hs).count |-> Head(hs).bucket] ELSE <<>>)
       \o ExpectedMeasures(Tail(hs), impl, op)

MeasuresAreExpected(hs) ==
  \A h \in Range(hs) :
    Entries(impl_measures[h.impl][h.op]) = ExpectedMeasures(hs, h.impl, h.op)

C10_MeasuresRepeatNonNegativeCounts ==
  plot_err = "" =>
    \A hs \in { HistRecords(plot_lines) } : KeySetsAgree(hs) /\ MeasuresAreExpected(hs)

\* Two lines of one pair and bucket, the first with count 2, the second with
\* count -1, and a line that is not a HIST line: the list has two entries.
C10_Witness ==
  /\ plot_pc = "layout"
  /\ Len(plot_lines) = 3
  /\ ~IsHistLine(plot_lines[2])
  /\ \E hs \in { HistRecords(plot_lines) } :
       /\ Len(hs) = 2
       /\ hs[1].count = 2
       /\ hs[2] = [hs[1] EXCEPT !.count = -1]
       /\ Entries(impl_measures[hs[1].impl][hs[1].op]) = << hs[1].bucket, hs[1].bucket >>

====
